---- MODULE Spec2Model ----
(***************************************************************************)
(* Model of the VoiceChat browser client (src/unnamed/part_000, lines      *)
(* 1-381: the current version of static/app.js).  The page is a            *)
(* single-threaded event loop: every action below is one task of that      *)
(* loop, i.e. one event handler or one continuation of an async function,  *)
(* run from the point where it is resumed to its next await.               *)
(***************************************************************************)
EXTENDS Integers, Sequences, FiniteSets, TLC

\* Bounds of the model (not program constants)
MaxCalls == 2       \* clicks on the start button plus press events on the
                    \* record button (startSession and startRecording calls)
MaxClips == 2       \* audio segments in one response
MaxEdits == 1       \* edits of the language and level controls

Langs == {"fr", "ru"}
Levels == {"A1", "A2"}

VARIABLES
    selectedLang,       \* value of input[name="lang"]:checked
    level,              \* value of #level-select
    edits,              \* number of edits of these two controls so far
    langDisabled,       \* input[name="lang"].disabled
    levelDisabled,      \* #level-select.disabled
    startBtnDisabled,   \* startBtn.disabled
    statusText,         \* statusText.textContent
    recordingClass,     \* recordBtn.classList contains 'recording'
    chatHistory,        \* children of #chat-history, in document order
    mediaRecorder,      \* the global: 0 is undefined, else an index of recorders
    audioChunks,        \* the global array of the chunks recorded
    currentSessionId,   \* the global: 0 is undefined
    sessionSent,        \* what the /start request of that session sent
    lastPlay,           \* the playAudioSequentially call that returned last
    recorders,          \* every MediaRecorder object created so far
    gums,               \* startRecording calls suspended at getUserMedia
    starts,             \* startSession calls, in the order of the clicks
    turns,              \* sendAudio calls, in the order of the stop events
    hasMedia,           \* navigator.mediaDevices.getUserMedia exists
    alerts,             \* number of alert() dialogs shown so far
    held,               \* the user's finger or mouse button is down
    gest,               \* number of physical presses so far
    presses,            \* number of press events so far
    pressDup,           \* the current gesture delivered its second press event
    releaseDup,         \* the current gesture delivered its second release event
    data,               \* the body of the response that is being rendered
    responseContainer,  \* the segment blocks of the 'message ai' container
    correctionPanel,    \* the 'correction-panel' element of that response
    rendered,           \* the response has been rendered
    pronunciationPanel, \* the 'pronunciation-panel' element of that response
    replyPlay           \* the playAudioSequentially call of that response

vars == <<selectedLang, level, edits, langDisabled, levelDisabled, startBtnDisabled,
          statusText, recordingClass, chatHistory, mediaRecorder, audioChunks,
          currentSessionId, sessionSent, lastPlay, recorders, gums, starts,
          turns, hasMedia, alerts, held, gest, presses, pressDup, releaseDup,
          data, responseContainer, correctionPanel, rendered,
          pronunciationPanel, replyPlay>>

controls == <<langDisabled, levelDisabled, startBtnDisabled>>
selection == <<selectedLang, level, edits>>
capture == <<mediaRecorder, audioChunks, recorders, gums>>
gesture == <<held, gest, presses, pressDup, releaseDup>>
session == <<currentSessionId, sessionSent>>
rendering == <<data, responseContainer, correctionPanel, rendered,
               pronunciationPanel, replyPlay>>
\* the page without the conversation, the status and the session
pageRest == <<selection, recordingClass, capture, lastPlay, starts, turns,
              hasMedia, alerts, gesture>>
page == <<selection, controls, statusText, recordingClass, chatHistory,
          capture, session, lastPlay, starts, turns, hasMedia, alerts,
          gesture>>

----------------------------------------------------------------------------
\* playAudioSequentially: the state of one call

\* a call that was never made
NoPlay == [called |-> FALSE, clips |-> <<>>, cur |-> 0, ended |-> 0, res |-> "none"]

\* new Audio(url); audio.play(): one more clip is sounding
StartClip(c) == [st |-> "playing", n |-> c.n + 1]

IdleClip == [st |-> "idle", n |-> 0]

\* a variant that starts every clip without awaiting any (a forEach in place
\* of the awaited loop)
NewPlayAll(n) ==
    [called |-> TRUE,
     clips |-> [k \in 1..n |-> StartClip(IdleClip)],
     cur |-> IF n = 0 THEN 0 ELSE 1,
     ended |-> 0,
     res |-> IF n = 0 THEN "completed" ELSE "running"]

\* the call itself, up to its first await: the loop creates and starts the
\* first clip only; with no segment the loop body never runs and the call
\* returns at once
NewPlay(n) ==
    IF n = 0
    THEN [called |-> TRUE, clips |-> <<>>, cur |-> 0, ended |-> 0,
          res |-> "completed"]
    ELSE [called |-> TRUE,
          clips |-> [k \in 1..n |-> IF k = 1 THEN StartClip(IdleClip)
                                             ELSE IdleClip],
          cur |-> 1, ended |-> 0, res |-> "running"]

\* a variant that returns after the first 'ended' (a return inside the loop)
PlayEndedEarly(p) ==
    [p EXCEPT !.clips = [@ EXCEPT ![p.cur] = [@ EXCEPT !.st = "ended"]],
              !.ended = p.ended + 1,
              !.res = "completed"]

\* audio.onended = resolve: the awaited promise resolves and the loop goes
\* on to the next segment, or the function returns after the last one
PlayEnded(p) ==
    LET done == [p.clips EXCEPT ![p.cur] = [@ EXCEPT !.st = "ended"]]
    IN  IF p.cur < Len(p.clips)
        THEN [p EXCEPT !.clips = [done EXCEPT ![p.cur + 1] = StartClip(@)],
                       !.cur = p.cur + 1,
                       !.ended = p.ended + 1]
        ELSE [p EXCEPT !.clips = done,
                       !.ended = p.ended + 1,
                       !.res = "completed"]

\* a variant that skips a failed clip and goes on (onerror = resolve)
PlayErrorSkips(p) ==
    LET bad == [p.clips EXCEPT ![p.cur] = [@ EXCEPT !.st = "error"]]
    IN  IF p.cur < Len(p.clips)
        THEN [p EXCEPT !.clips = [bad EXCEPT ![p.cur + 1] = StartClip(@)],
                       !.cur = p.cur + 1]
        ELSE [p EXCEPT !.clips = bad, !.res = "completed"]

\* audio.onerror = reject, audio.play().catch(reject): the awaited promise
\* rejects, the exception leaves the loop and the function
PlayError(p) ==
    [p EXCEPT !.clips = [@ EXCEPT ![p.cur] = [@ EXCEPT !.st = "error"]],
              !.res = "failed"]

----------------------------------------------------------------------------
\* helpers

\* a target language that is always French
TargetLangFrench(l) == "fr"

\* targetLang = selectedLang === 'fr' ? 'ru' : 'fr'
TargetLang(l) == IF l = "fr" THEN "ru" ELSE "fr"

\* the session parameters a request carries: formData's source_lang,
\* target_lang and level, read from the controls when the request is built
Request(lang, lvl) == [src |-> lang, tgt |-> TargetLang(lang), level |-> lvl]
NoRequest == [src |-> "", tgt |-> "", level |-> ""]

\* addMessage and the other appendChild calls: one more child of
\* #chat-history.  of names the sendAudio call that added it.
Entry(kind, of) == [kind |-> kind, of |-> of]

RECURSIVE FirstPlaceholder(_, _)
FirstPlaceholder(h, k) ==
    IF k > Len(h) THEN 0
    ELSE IF h[k].kind = "placeholder" THEN k
    ELSE FirstPlaceholder(h, k + 1)

\* s without its k-th element
Without(s, k) == [m \in 1..(Len(s) - 1) |-> IF m < k THEN s[m] ELSE s[m + 1]]

\* document.querySelector('.message.user.placeholder'): the first one in
\* document order; if (placeholder) placeholder.remove()
RemovePlaceholder(h) ==
    LET k == FirstPlaceholder(h, 1)
    IN  IF k = 0 THEN h ELSE Without(h, k)

\* an async call that has returned: its locals are gone
Returned == [pc |-> "returned", req |-> NoRequest, sent |-> NoRequest,
             blob |-> <<>>, rec |-> 0, play |-> NoPlay]

\* a sendAudio call whose /chat request or whose playback is pending
InFlight(t) == t.pc \in {"fetch", "playing"}
Processing == \E j \in 1..Len(turns) : InFlight(turns[j])

\* what the server may answer with a success status: segs tells whether the
\* reply has segments, audio is the length of audio_segments (-1: the field
\* is missing).  A network failure and a non-success status both end in the
\* catch block and are one outcome, the Fails actions.
StartData == [segs : BOOLEAN, audio : -1..MaxClips]
ChatData == [segs : BOOLEAN, audio : 0..MaxClips]

----------------------------------------------------------------------------
InitPage ==
    /\ selectedLang = "fr"
    /\ level = "A1"
    /\ edits = 0
    /\ langDisabled = FALSE
    /\ levelDisabled = FALSE
    /\ startBtnDisabled = FALSE
    /\ statusText = ""
    /\ recordingClass = FALSE
    /\ chatHistory = <<>>
    /\ mediaRecorder = 0
    /\ audioChunks = <<>>
    /\ currentSessionId = 0
    /\ sessionSent = NoRequest
    /\ lastPlay = NoPlay
    /\ recorders = <<>>
    /\ gums = <<>>
    /\ starts = <<>>
    /\ turns = <<>>
    /\ hasMedia \in BOOLEAN
    /\ alerts = 0
    /\ held = FALSE
    /\ gest = 0
    /\ presses = 0
    /\ pressDup = FALSE
    /\ releaseDup = FALSE

\* no response is being rendered
NoAnalysis == [present |-> FALSE, is_correct |-> FALSE,
               corrected_text |-> <<>>, explanation |-> ""]
NoPronunciation == [present |-> FALSE, hasScore |-> FALSE, score |-> 0]
NoData == [kind |-> "", sourceLang |-> "", hasSegments |-> FALSE,
           segments |-> <<>>, user_analysis |-> NoAnalysis,
           pronunciation |-> NoPronunciation, audio |-> 0]
\* no pronunciation panel was appended
NoScorePanel == [shown |-> FALSE, score |-> 0, scoreClass |-> "",
                 scoreEmoji |-> ""]
\* no correction panel was appended
NoPanel == [shown |-> FALSE, title |-> "", text |-> <<>>, explanation |-> ""]

Init ==
    /\ InitPage
    /\ data = NoData
    /\ responseContainer = <<>>
    /\ correctionPanel = NoPanel
    /\ rendered = FALSE
    /\ pronunciationPanel = NoScorePanel
    /\ replyPlay = NoPlay

----------------------------------------------------------------------------
\* the user edits the session-parameter controls (a disabled control cannot
\* be edited): picks the other language, another level

ChangeLang ==
    /\ ~langDisabled
    /\ edits < MaxEdits
    /\ edits' = edits + 1
    /\ selectedLang' = TargetLang(selectedLang)
    /\ UNCHANGED <<level, controls, statusText, recordingClass, chatHistory,
                   capture, session, lastPlay, starts, turns, hasMedia, alerts,
                   rendering, gesture>>

ChangeLevel ==
    /\ ~levelDisabled
    /\ edits < MaxEdits
    /\ edits' = edits + 1
    /\ level' \in Levels \ {level}
    /\ UNCHANGED <<selectedLang, controls, statusText, recordingClass,
                   chatHistory, capture, session, lastPlay, starts, turns,
                   hasMedia, alerts,
                   rendering, gesture>>

----------------------------------------------------------------------------
\* startSession

\* click on startBtn (a disabled button delivers no click): the function runs
\* up to await fetch('/start')
StartClick ==
    /\ ~startBtnDisabled
    /\ Len(starts) + presses < MaxCalls
    /\ statusText' = "Starting session..."
    /\ starts' = Append(starts, [Returned EXCEPT
                                    !.pc = "fetch",
                                    !.req = Request(selectedLang, level)])
    /\ UNCHANGED <<selection, controls, recordingClass, chatHistory, capture,
                   session, lastPlay, turns, hasMedia, alerts,
                   rendering, gesture>>

\* the session id the server assigns in answer to the i-th /start request
SessionIdOf(i) == i

\* a variant whose catch block adds an error message to the history, as
\* sendAudio's does
StartFailsMarked(i) ==
    /\ i \in 1..Len(starts)
    /\ starts[i].pc = "fetch"
    /\ statusText' = "Error starting."
    /\ starts' = [starts EXCEPT ![i] = Returned]
    /\ chatHistory' = Append(chatHistory, Entry("system", 0))
    /\ UNCHANGED <<selection, controls, recordingClass, capture, session,
                   lastPlay, turns, hasMedia, alerts,
                   rendering, gesture>>

\* fetch rejected, !response.ok or a body that is no JSON: the catch block
StartFails(i) ==
    /\ i \in 1..Len(starts)
    /\ starts[i].pc = "fetch"
    /\ statusText' = "Error starting."
    /\ starts' = [starts EXCEPT ![i] = Returned]
    /\ UNCHANGED <<selection, controls, recordingClass, chatHistory, capture,
                   session, lastPlay, turns, hasMedia, alerts,
                   rendering, gesture>>

\* a variant that leaves the start button enabled
DisableControlsNotButton ==
    /\ levelDisabled' = TRUE
    /\ langDisabled' = TRUE
    /\ UNCHANGED startBtnDisabled

\* Disable controls
DisableControls ==
    /\ levelDisabled' = TRUE
    /\ langDisabled' = TRUE
    /\ startBtnDisabled' = TRUE

\* the response arrives with data: render, save the session, disable the
\* controls, start the greeting's playback
StartResponds(i, d) ==
    /\ i \in 1..Len(starts)
    /\ starts[i].pc = "fetch"
    /\ chatHistory' = Append(chatHistory,
                             Entry(IF d.segs THEN "ai" ELSE "welcome", 0))
    /\ currentSessionId' = SessionIdOf(i)
    /\ sessionSent' = starts[i].req
    /\ DisableControls
    /\ LET p == IF d.audio >= 0 THEN NewPlay(d.audio) ELSE NoPlay
       IN  IF p.res = "running"
           THEN /\ starts' = [starts EXCEPT ![i] = [@ EXCEPT !.pc = "playing",
                                                             !.play = p]]
                /\ UNCHANGED <<statusText, lastPlay>>
           ELSE /\ starts' = [starts EXCEPT ![i] = Returned]
                /\ lastPlay' = IF p.called THEN p ELSE lastPlay
                /\ statusText' = "Your turn (Press Mic)"
    /\ UNCHANGED <<selection, recordingClass, capture, turns, hasMedia, alerts,
                   rendering, gesture>>

\* a clip of the greeting reports 'ended'
StartClipEnded(i) ==
    /\ i \in 1..Len(starts)
    /\ starts[i].pc = "playing"
    /\ LET p == PlayEnded(starts[i].play)
       IN  IF p.res = "running"
           THEN /\ starts' = [starts EXCEPT ![i] = [@ EXCEPT !.play = p]]
                /\ UNCHANGED <<statusText, lastPlay>>
           ELSE /\ starts' = [starts EXCEPT ![i] = Returned]
                /\ lastPlay' = p
                /\ statusText' = "Your turn (Press Mic)"
    /\ UNCHANGED <<selection, controls, recordingClass, chatHistory, capture,
                   session, turns, hasMedia, alerts,
                   rendering, gesture>>

\* a clip of the greeting fails to load or to start: playAudioSequentially
\* rejects and startSession's catch block runs
StartClipError(i) ==
    /\ i \in 1..Len(starts)
    /\ starts[i].pc = "playing"
    /\ starts' = [starts EXCEPT ![i] = Returned]
    /\ lastPlay' = PlayError(starts[i].play)
    /\ statusText' = "Error starting."
    /\ UNCHANGED <<selection, controls, recordingClass, chatHistory, capture,
                   session, turns, hasMedia, alerts,
                   rendering, gesture>>

----------------------------------------------------------------------------
\* startRecording, stopRecording

\* startRecording(e) up to await getUserMedia: without the capability it
\* alerts and returns; else the call is suspended until the user or the
\* browser answers the permission request.  g is the physical press the
\* event belongs to; proc records whether the press came during Processing.
startRecording(g) ==
    /\ Len(starts) + presses < MaxCalls
    /\ presses' = presses + 1
    /\ gums' = IF hasMedia
               THEN Append(gums, [gest |-> g, proc |-> Processing])
               ELSE gums
    /\ alerts' = IF hasMedia THEN alerts ELSE alerts + 1
    /\ UNCHANGED <<selection, controls, statusText, recordingClass,
                   chatHistory, mediaRecorder, audioChunks, recorders,
                   session, lastPlay, starts, turns, hasMedia, rendering>>

\* a stopRecording that refuses to stop once an error was reported
stopRecordingUnlessError ==
    /\ IF /\ mediaRecorder # 0
          /\ recorders[mediaRecorder].state # "inactive"
          /\ \A k \in 1..Len(chatHistory) : chatHistory[k].kind # "system"
       THEN /\ recorders' = [recorders EXCEPT ![mediaRecorder] =
                                [@ EXCEPT !.state = "inactive",
                                          !.stopTask = TRUE]]
            /\ recordingClass' = FALSE
            /\ statusText' = "Traitement..."
       ELSE UNCHANGED <<recorders, recordingClass, statusText>>
    /\ UNCHANGED <<selection, controls, chatHistory, mediaRecorder,
                   audioChunks, gums, session, lastPlay, starts, turns,
                   hasMedia, alerts,
                   rendering>>

\* stopRecording(e)
stopRecording ==
    /\ IF mediaRecorder # 0 /\ recorders[mediaRecorder].state # "inactive"
       THEN /\ recorders' = [recorders EXCEPT ![mediaRecorder] =
                                [@ EXCEPT !.state = "inactive",
                                          !.stopTask = TRUE]]
            /\ recordingClass' = FALSE
            /\ statusText' = "Traitement..."
       ELSE UNCHANGED <<recorders, recordingClass, statusText>>
    /\ UNCHANGED <<selection, controls, chatHistory, mediaRecorder,
                   audioChunks, gums, session, lastPlay, starts, turns,
                   hasMedia, alerts,
                   rendering>>

\* the user presses the button: the first press event of the gesture
\* (mousedown, or touchstart on a touch screen)
Press ==
    /\ ~held
    /\ held' = TRUE
    /\ gest' = gest + 1
    /\ pressDup' = FALSE
    /\ releaseDup' = FALSE
    /\ startRecording(gest + 1)

\* the same physical press also delivers the event of the other modality
\* (the mousedown that follows a touchstart)
PressAgain ==
    /\ gest > 0
    /\ ~pressDup
    /\ pressDup' = TRUE
    /\ UNCHANGED <<held, gest, releaseDup>>
    /\ startRecording(gest)

\* the user releases the button: the first release event of the gesture
\* (mouseup or touchend)
Release ==
    /\ held
    /\ held' = FALSE
    /\ UNCHANGED <<gest, presses, pressDup, releaseDup>>
    /\ stopRecording

\* the same release also delivers the event of the other modality
ReleaseAgain ==
    /\ gest > 0
    /\ ~held
    /\ ~releaseDup
    /\ releaseDup' = TRUE
    /\ UNCHANGED <<held, gest, presses, pressDup>>
    /\ stopRecording

\* getUserMedia resolves: the rest of startRecording's try block
MicGranted(k) ==
    /\ k \in 1..Len(gums)
    /\ gums' = Without(gums, k)
    /\ recorders' = Append(recorders, [state |-> "recording",
                                       stopTask |-> FALSE,
                                       stream |-> "live",
                                       gest |-> gums[k].gest])
    /\ mediaRecorder' = Len(recorders) + 1
    /\ audioChunks' = <<>>
    /\ recordingClass' = TRUE
    /\ statusText' = "Enregistrement..."
    /\ UNCHANGED <<selection, controls, chatHistory, session, lastPlay,
                   starts, turns, hasMedia, alerts,
                   rendering, gesture>>

\* getUserMedia rejects: the catch block alerts
MicDenied(k) ==
    /\ k \in 1..Len(gums)
    /\ gums' = Without(gums, k)
    /\ alerts' = alerts + 1
    /\ UNCHANGED <<selection, controls, statusText, recordingClass,
                   chatHistory, mediaRecorder, audioChunks, recorders,
                   session, lastPlay, starts, turns, hasMedia, rendering, gesture>>

----------------------------------------------------------------------------
\* sendAudio

\* event.data of a dataavailable event: the chunk recorder r delivers, of
\* size 0 when nothing was captured between press and release
ChunkSizes == {0, 1}
Chunk(r, size) == [rec |-> r, size |-> size]

\* a stop handler that uploads nothing when the recording is empty
RecorderStoppedUnlessEmpty(r) ==
    /\ r \in 1..Len(recorders)
    /\ recorders[r].stopTask
    /\ recorders' = [recorders EXCEPT ![r] = [@ EXCEPT !.stopTask = FALSE]]
    /\ \E size \in ChunkSizes :
          /\ audioChunks' = Append(audioChunks, Chunk(r, size))
          /\ IF size = 0
             THEN UNCHANGED <<turns, chatHistory>>
             ELSE /\ turns' = Append(turns, [Returned EXCEPT
                                  !.pc = "fetch",
                                  !.blob = audioChunks',
                                  !.req = Request(selectedLang, level),
                                  !.sent = sessionSent,
                                  !.rec = r])
                  /\ chatHistory' = Append(chatHistory,
                                     Entry("placeholder", Len(turns) + 1))
    /\ UNCHANGED <<selection, controls, statusText, recordingClass,
                   mediaRecorder, gums, session, lastPlay, starts, hasMedia, alerts,
                   rendering, gesture>>

\* the task MediaRecorder.stop() queued: the recorder fires dataavailable
\* with what it recorded (ondataavailable pushes it to the global
\* audioChunks), then stop, whose handler sendAudio runs up to
\* await fetch('/chat').  sent remembers what the session's /start request
\* had sent, if a session was started by then.
RecorderStopped(r) ==
    /\ r \in 1..Len(recorders)
    /\ recorders[r].stopTask
    /\ recorders' = [recorders EXCEPT ![r] = [@ EXCEPT !.stopTask = FALSE]]
    /\ \E size \in ChunkSizes :
          audioChunks' = Append(audioChunks, Chunk(r, size))
    /\ turns' = Append(turns, [Returned EXCEPT
                                  !.pc = "fetch",
                                  !.blob = audioChunks',
                                  !.req = Request(selectedLang, level),
                                  !.sent = sessionSent,
                                  !.rec = r])
    /\ chatHistory' = Append(chatHistory, Entry("placeholder", Len(turns) + 1))
    /\ UNCHANGED <<selection, controls, statusText, recordingClass,
                   mediaRecorder, gums, session, lastPlay, starts, hasMedia, alerts,
                   rendering, gesture>>

\* a catch block that appends the error message and removes the placeholder
\* but leaves the status text as it was
ShowTurnErrorSilent ==
    /\ chatHistory' = RemovePlaceholder(
                          Append(chatHistory, Entry("system", 0)))
    /\ UNCHANGED statusText

\* what sendAudio's catch block does to the page
ShowTurnError ==
    /\ statusText' = "Erreur"
    /\ chatHistory' = RemovePlaceholder(
                          Append(chatHistory, Entry("system", 0)))

\* fetch rejected, !response.ok or a body that is no JSON: the catch block
ChatFails(j) ==
    /\ j \in 1..Len(turns)
    /\ turns[j].pc = "fetch"
    /\ turns' = [turns EXCEPT ![j] = Returned]
    /\ ShowTurnError
    /\ UNCHANGED <<selection, controls, recordingClass, capture, session,
                   lastPlay, starts, hasMedia, alerts,
                   rendering, gesture>>

\* the response arrives with data: render it, start its playback (the
\* pronunciation and correction panels, which touch no other state, are left
\* out of the history here)
ChatResponds(j, d) ==
    /\ j \in 1..Len(turns)
    /\ turns[j].pc = "fetch"
    /\ LET h1 == Append(RemovePlaceholder(chatHistory), Entry("user", 0))
       IN  chatHistory' = IF d.segs THEN Append(h1, Entry("ai", 0)) ELSE h1
    /\ IF d.audio > 0
       THEN /\ turns' = [turns EXCEPT ![j] = [@ EXCEPT !.pc = "playing",
                                                       !.play = NewPlay(d.audio)]]
            /\ UNCHANGED statusText
       ELSE /\ turns' = [turns EXCEPT ![j] = Returned]
            /\ statusText' = "Prêt"
    /\ UNCHANGED <<selection, controls, recordingClass, capture, session,
                   lastPlay, starts, hasMedia, alerts,
                   rendering, gesture>>

\* a clip of the reply reports 'ended'
TurnClipEnded(j) ==
    /\ j \in 1..Len(turns)
    /\ turns[j].pc = "playing"
    /\ LET p == PlayEnded(turns[j].play)
       IN  IF p.res = "running"
           THEN /\ turns' = [turns EXCEPT ![j] = [@ EXCEPT !.play = p]]
                /\ UNCHANGED <<statusText, lastPlay>>
           ELSE /\ turns' = [turns EXCEPT ![j] = Returned]
                /\ lastPlay' = p
                /\ statusText' = "Prêt"
    /\ UNCHANGED <<selection, controls, recordingClass, chatHistory, capture,
                   session, starts, hasMedia, alerts,
                   rendering, gesture>>

\* a clip of the reply fails to load or to start: playAudioSequentially
\* rejects and sendAudio's catch block runs
TurnClipError(j) ==
    /\ j \in 1..Len(turns)
    /\ turns[j].pc = "playing"
    /\ turns' = [turns EXCEPT ![j] = Returned]
    /\ lastPlay' = PlayError(turns[j].play)
    /\ ShowTurnError
    /\ UNCHANGED <<selection, controls, recordingClass, capture, session,
                   starts, hasMedia, alerts,
                   rendering, gesture>>

----------------------------------------------------------------------------
Next ==
    \/ ChangeLang
    \/ ChangeLevel
    \/ StartClick
    \/ \E i \in 1..MaxCalls : StartFails(i)
    \/ \E i \in 1..MaxCalls, d \in StartData : StartResponds(i, d)
    \/ \E i \in 1..MaxCalls : StartClipEnded(i)
    \/ \E i \in 1..MaxCalls : StartClipError(i)
    \/ Press
    \/ PressAgain
    \/ Release
    \/ ReleaseAgain
    \/ \E k \in 1..MaxCalls : MicGranted(k)
    \/ \E k \in 1..MaxCalls : MicDenied(k)
    \/ \E r \in 1..MaxCalls : RecorderStopped(r)
    \/ \E j \in 1..MaxCalls : ChatFails(j)
    \/ \E j \in 1..MaxCalls, d \in ChatData : ChatResponds(j, d)
    \/ \E j \in 1..MaxCalls : TurnClipEnded(j)
    \/ \E j \in 1..MaxCalls : TurnClipError(j)

Spec == Init /\ [][Next]_vars

\* the page when every /chat request is answered or fails and every started
\* clip ends or fails: the browser delivers the fetch's settlement and the
\* clip's 'ended' or 'error' event as tasks of the event loop
ChatSettles(j) == ChatFails(j) \/ \E d \in ChatData : ChatResponds(j, d)
TurnClipSettles(j) == TurnClipEnded(j) \/ TurnClipError(j)
\* the page when the user lets go of the button that is held, and the browser
\* runs the task that MediaRecorder.stop() queued
SpecAttempt ==
    /\ Spec
    /\ WF_vars(Release)
    /\ \A r \in 1..MaxCalls : WF_vars(RecorderStopped(r))

SpecLive ==
    /\ Spec
    /\ \A j \in 1..MaxCalls : WF_vars(ChatSettles(j)) /\ WF_vars(TurnClipSettles(j))

----------------------------------------------------------------------------
\* Rendering of a response: the segment blocks and the correction panel.
\* Both are functions of the response body alone.

MaxSegments == 2    \* text segments in one response

\* the language tags a segment can carry; "en" stands for any tag the client
\* does not know
Tags == {"fr", "ru", "en"}
Texts == {"t1", "t2"}

\* langFlag
LangFlag(lang) ==
    IF lang = "fr" THEN "flag-fr" ELSE IF lang = "ru" THEN "flag-ru" ELSE ""

\* a segment block that is always plain text
SegmentBlockPlain(segment, sourceLang) ==
    [toggle |-> FALSE,
     flag |-> LangFlag(segment.lang),
     text |-> segment.text,
     visible |-> TRUE,
     class |-> "target-lang-text"]

\* the body of the forEach callback: one 'segment-block' element.  A native
\* segment is a 'tip-toggle' button and a 'hidden-content' element, shown
\* only while it carries the class 'visible'; any other segment is text
SegmentBlock(segment, sourceLang) ==
    LET isNative == segment.lang = sourceLang
    IN  IF isNative
        THEN [toggle |-> TRUE,
              flag |-> LangFlag(segment.lang),
              text |-> segment.text,
              visible |-> FALSE,
              class |-> "hidden-content"]
        ELSE [toggle |-> FALSE,
              flag |-> LangFlag(segment.lang),
              text |-> segment.text,
              visible |-> TRUE,
              class |-> "target-lang-text"]

\* a rendering that joins the segments into one block
RenderSegmentsCombined(segments, sourceLang) ==
    IF Len(segments) = 0
    THEN <<>>
    ELSE <<SegmentBlockPlain(segments[Len(segments)], sourceLang)>>

\* segments.forEach(...): the blocks appended to responseContainer
RenderSegments(segments, sourceLang) ==
    [k \in 1..Len(segments) |-> SegmentBlock(segments[k], sourceLang)]

\* displayCorrection(analysis)
displayCorrection(analysis) ==
    IF ~analysis.present
       \/ (analysis.corrected_text = <<>> /\ analysis.explanation = "")
    THEN NoPanel
    ELSE LET isCorrect == analysis.is_correct
         IN  [shown |-> TRUE,
              title |-> IF isCorrect THEN "Parfait !" ELSE "Correction",
              text |-> IF ~isCorrect /\ analysis.corrected_text # <<>>
                       THEN analysis.corrected_text
                       ELSE <<>>,
              explanation |-> analysis.explanation]

\* texts are sequences of characters; the letters that have two cases
UpperCase == <<"A", "C", "E", "I", "N", "O", "R", "S", "T", "U", "É">>
LowerCase == <<"a", "c", "e", "i", "n", "o", "r", "s", "t", "u", "é">>
Cased == 1..Len(UpperCase)
toLowerChar(c) ==
    IF \E i \in Cased : UpperCase[i] = c
    THEN LowerCase[CHOOSE i \in Cased : UpperCase[i] = c]
    ELSE c
toUpperChar(c) ==
    IF \E i \in Cased : LowerCase[i] = c
    THEN UpperCase[CHOOSE i \in Cased : LowerCase[i] = c]
    ELSE c
\* String.prototype.toLowerCase, toUpperCase
toLowerCase(t) == [i \in 1..Len(t) |-> toLowerChar(t[i])]
toUpperCase(t) == [i \in 1..Len(t) |-> toUpperChar(t[i])]

\* "aucune correction nécessaire"
Sentinel ==
    <<"a", "u", "c", "u", "n", "e", " ",
      "c", "o", "r", "r", "e", "c", "t", "i", "o", "n", " ",
      "n", "é", "c", "e", "s", "s", "a", "i", "r", "e">>
\* "Je vais bien"
OtherText == <<"J", "e", " ", "v", "a", "i", "s", " ", "b", "i", "e", "n">>
CorrectedTexts ==
    {<<>>, Sentinel, [Sentinel EXCEPT ![1] = toUpperChar(@)],
     toUpperCase(Sentinel), OtherText}

\* the bodies a response can have
Analyses ==
    {NoAnalysis} \cup [present : {TRUE}, is_correct : BOOLEAN,
                       corrected_text : CorrectedTexts,
                       explanation : {"", "expl"}]
SegmentLists ==
    UNION {[1..n -> [lang : Tags, text : Texts]] : n \in 0..MaxSegments}
Replies ==
    [kind : {"chat"}, sourceLang : Langs, hasSegments : {TRUE},
     segments : SegmentLists, user_analysis : Analyses,
     pronunciation : {NoPronunciation}, audio : {0}]

\* scores are counted in tenths of a percent, the precision of toFixed(1)
MaxScore == 1000

\* a panel whose emoji turns at 50 % (the bands of the first version)
displayPronunciationFeedbackOld(pronunciation) ==
    LET score == IF pronunciation.hasScore THEN pronunciation.score ELSE 0
    IN  [shown |-> TRUE,
         score |-> score,
         scoreClass |-> IF score >= 800 THEN "excellent"
                        ELSE IF score >= 600 THEN "good" ELSE "needs-work",
         scoreEmoji |-> IF score >= 800 THEN "target"
                        ELSE IF score >= 500 THEN "thumbs-up" ELSE "repeat"]

\* displayPronunciationFeedback: score = pronunciation.score || 0, then the
\* class of the score bar and the emoji of the header
displayPronunciationFeedback(pronunciation) ==
    LET score == IF pronunciation.hasScore THEN pronunciation.score ELSE 0
    IN  [shown |-> TRUE,
         score |-> score,
         scoreClass |-> IF score >= 800 THEN "excellent"
                        ELSE IF score >= 600 THEN "good" ELSE "needs-work",
         scoreEmoji |-> IF score >= 800 THEN "target"
                        ELSE IF score >= 600 THEN "thumbs-up" ELSE "repeat"]

\* a response body has arrived and is about to be rendered
InitRendering ==
    /\ InitPage
    /\ responseContainer = <<>>
    /\ correctionPanel = NoPanel
    /\ rendered = FALSE
    /\ pronunciationPanel = NoScorePanel
    /\ replyPlay = NoPlay
InitRender == InitRendering /\ data \in Replies

\* what the try block of sendAudio appends to the history, in this order
ReplyEntries ==
    <<Entry("user", 0)>>
    \o (IF data.pronunciation.present
        THEN <<Entry("pronunciation", 0)>> ELSE <<>>)
    \o (IF data.user_analysis.present
           /\ displayCorrection(data.user_analysis).shown
        THEN <<Entry("correction", 0)>> ELSE <<>>)
    \o (IF Len(data.segments) > 0 THEN <<Entry("ai", 0)>> ELSE <<>>)

\* a rendering that shows the segments only under a correction
ReplyContainerIfAnalysed ==
    IF data.user_analysis.present
    THEN RenderSegments(data.segments, data.sourceLang)
    ELSE <<>>

\* the blocks of the reply's container
ReplyContainer == RenderSegments(data.segments, data.sourceLang)

\* sendAudio from the parsed response to the first await of the playback,
\* or to its end when there is no audio
RenderReply ==
    /\ ~rendered
    /\ data.kind = "chat"
    /\ rendered' = TRUE
    /\ chatHistory' = RemovePlaceholder(chatHistory) \o ReplyEntries
    /\ pronunciationPanel' =
           IF data.pronunciation.present
           THEN displayPronunciationFeedback(data.pronunciation)
           ELSE NoScorePanel
    /\ correctionPanel' = IF data.user_analysis.present
                          THEN displayCorrection(data.user_analysis)
                          ELSE NoPanel
    /\ responseContainer' = ReplyContainer
    /\ IF data.audio > 0
       THEN replyPlay' = NewPlay(data.audio) /\ UNCHANGED statusText
       ELSE replyPlay' = NoPlay /\ statusText' = "Prêt"
    /\ UNCHANGED <<data, pageRest, controls, session>>

\* startSession from the parsed response to the first await of the
\* greeting's playback, or to its end when nothing is to be played
RenderGreeting ==
    /\ ~rendered
    /\ data.kind = "start"
    /\ rendered' = TRUE
    /\ chatHistory' = Append(chatHistory,
                 Entry(IF data.hasSegments THEN "ai" ELSE "welcome", 0))
    /\ responseContainer' = IF data.hasSegments THEN ReplyContainer ELSE <<>>
    /\ currentSessionId' = SessionIdOf(1)
    /\ sessionSent' = Request(data.sourceLang, level)
    /\ DisableControls
    /\ LET p == IF data.audio >= 0 THEN NewPlay(data.audio) ELSE NoPlay
       IN  /\ replyPlay' = p
           /\ IF p.res = "running"
              THEN UNCHANGED statusText
              ELSE statusText' = "Your turn (Press Mic)"
    /\ UNCHANGED <<data, correctionPanel, pronunciationPanel, pageRest>>

\* the status that tells the user the reply is over
ReadyStatus == IF data.kind = "start" THEN "Your turn (Press Mic)" ELSE "Prêt"

\* a handler that reports ready at the first clip that ends
ReplyClipEndedEager ==
    /\ replyPlay.res = "running"
    /\ replyPlay' = PlayEnded(replyPlay)
    /\ statusText' = ReadyStatus
    /\ UNCHANGED <<data, responseContainer, correctionPanel, rendered,
                   pronunciationPanel, chatHistory, pageRest, controls,
                   session>>

\* a clip of the response reports 'ended': the next clip starts, or the
\* awaited call returns and the handler sets the status
ReplyClipEnded ==
    /\ replyPlay.res = "running"
    /\ replyPlay' = PlayEnded(replyPlay)
    /\ IF replyPlay'.res = "running"
       THEN UNCHANGED statusText
       ELSE statusText' = ReadyStatus
    /\ UNCHANGED <<data, responseContainer, correctionPanel, rendered,
                   pronunciationPanel, chatHistory, pageRest, controls,
                   session>>

\* a clip of the response fails: the handler's catch block runs
ReplyClipError ==
    /\ replyPlay.res = "running"
    /\ replyPlay' = PlayError(replyPlay)
    /\ IF data.kind = "start"
       THEN statusText' = "Error starting." /\ UNCHANGED chatHistory
       ELSE ShowTurnError
    /\ UNCHANGED <<data, responseContainer, correctionPanel, rendered,
                   pronunciationPanel, pageRest, controls, session>>

\* toggleBtn.onclick of block k
ToggleClick(k) ==
    /\ rendered
    /\ k \in 1..Len(responseContainer)
    /\ responseContainer[k].toggle
    /\ responseContainer' = [responseContainer EXCEPT
                                ![k] = [@ EXCEPT !.visible = ~@]]
    /\ UNCHANGED <<data, correctionPanel, rendered, pronunciationPanel,
                   replyPlay, page>>

NextRender ==
    \/ RenderReply
    \/ \E k \in 1..MaxSegments : ToggleClick(k)

SpecRender == InitRender /\ [][NextRender]_vars

\* the handling of one response, of /start or of /chat, with each optional
\* part present or absent
TurnSegmentLists ==
    UNION {[1..n -> [lang : Tags, text : {"t1"}]] : n \in 0..MaxSegments}
TurnAnalyses ==
    {NoAnalysis,
     [present |-> TRUE, is_correct |-> FALSE, corrected_text |-> OtherText,
      explanation |-> "expl"],
     [present |-> TRUE, is_correct |-> TRUE, corrected_text |-> <<>>,
      explanation |-> ""]}
TurnPronunciations ==
    {NoPronunciation, [present |-> TRUE, hasScore |-> TRUE, score |-> 750]}
TurnReplies ==
    [kind : {"chat"}, sourceLang : Langs, hasSegments : {TRUE},
     segments : TurnSegmentLists, user_analysis : TurnAnalyses,
     pronunciation : TurnPronunciations, audio : 0..MaxClips]
    \cup
    [kind : {"start"}, sourceLang : Langs, hasSegments : {TRUE},
     segments : TurnSegmentLists, user_analysis : {NoAnalysis},
     pronunciation : {NoPronunciation}, audio : -1..MaxClips]
    \cup
    [kind : {"start"}, sourceLang : Langs, hasSegments : {FALSE},
     segments : {<<>>}, user_analysis : {NoAnalysis},
     pronunciation : {NoPronunciation}, audio : -1..MaxClips]
InitTurn == InitRendering /\ data \in TurnReplies
NextTurn ==
    \/ RenderReply
    \/ RenderGreeting
    \/ ReplyClipEnded
    \/ ReplyClipError
SpecTurn == InitTurn /\ [][NextTurn]_vars

\* static/app.js: the reply of /chat is one message, the segments joined
\* into one text, each piece led by the flag of its tag
langFlagStatic(lang) == IF lang = "fr" THEN "flag-fr" ELSE "flag-ru"
combinedMessage(segments) ==
    [k \in 1..Len(segments) |->
        [flag |-> langFlagStatic(segments[k].lang),
         text |-> segments[k].text]]
StaticReplies ==
    [kind : {"chat"}, sourceLang : Langs, hasSegments : {TRUE},
     segments : TurnSegmentLists, user_analysis : {NoAnalysis},
     pronunciation : TurnPronunciations, audio : 0..MaxClips]
InitStatic == InitRendering /\ data \in StaticReplies

\* static/app.js, sendAudio from the parsed response to the first await of
\* the playback, or to its end when there is no audio
RenderStatic ==
    /\ ~rendered
    /\ rendered' = TRUE
    /\ chatHistory' = RemovePlaceholder(chatHistory)
          \o <<Entry("user", 0)>>
          \o (IF data.pronunciation.present
              THEN <<Entry("pronunciation", 0)>> ELSE <<>>)
          \o (IF Len(data.segments) > 0 THEN <<Entry("ai", 0)>> ELSE <<>>)
    /\ pronunciationPanel' =
           IF data.pronunciation.present
           THEN displayPronunciationFeedback(data.pronunciation)
           ELSE NoScorePanel
    /\ responseContainer' = combinedMessage(data.segments)
    /\ IF data.audio > 0
       THEN replyPlay' = NewPlay(data.audio) /\ UNCHANGED statusText
       ELSE replyPlay' = NoPlay /\ statusText' = "Prêt"
    /\ UNCHANGED <<data, correctionPanel, pageRest, controls, session>>
SpecStatic == InitStatic /\ [][RenderStatic]_vars

\* the responses whose pronunciation analysis has any score of the scale,
\* or none
Pronunciations ==
    {[present |-> TRUE, hasScore |-> FALSE, score |-> 0]}
        \cup [present : {TRUE}, hasScore : {TRUE}, score : 0..MaxScore]
ScoredReplies ==
    [kind : {"chat"}, sourceLang : {"fr"}, hasSegments : {FALSE},
     segments : {<<>>}, user_analysis : {NoAnalysis},
     pronunciation : Pronunciations, audio : {0}]
InitScore == InitRendering /\ data \in ScoredReplies
SpecScore == InitScore /\ [][RenderReply]_vars

----------------------------------------------------------------------------
\* Properties

\* the playAudioSequentially calls there are: the suspended ones and the one
\* that returned last
Plays ==
    {p \in {starts[i].play : i \in 1..Len(starts)}
           \cup {turns[j].play : j \in 1..Len(turns)}
           \cup {lastPlay} : p.called}

ClipsOf(p) == 1..Len(p.clips)

\* C1: within one call of playAudioSequentially at most one clip is playing
\* at any moment, and a clip has been started only if the clip before it in
\* the list has reported 'ended'.
C1_OneClipAtATimeInOrder ==
    \A p \in Plays :
        /\ Cardinality({k \in ClipsOf(p) : p.clips[k].st = "playing"}) <= 1
        /\ \A k \in ClipsOf(p) :
               (k > 1 /\ p.clips[k].n > 0) => p.clips[k - 1].st = "ended"

\* a call whose first clip has ended and whose second clip is playing
C1_Witness ==
    \E p \in Plays :
        /\ Len(p.clips) >= 2
        /\ p.clips[1].st = "ended"
        /\ p.clips[2].st = "playing"

\* C2: no clip is ever started twice; a call whose clips all succeed is still
\* running as long as fewer than N clips have ended, and once it has completed
\* every one of its N clips was started exactly once and exactly N 'ended'
\* signals were received; a call with N = 0 has completed, with no clip.
C2_CompletesAfterNEnded ==
    \A p \in Plays :
        /\ \A k \in ClipsOf(p) : p.clips[k].n <= 1
        /\ p.res = "running" => p.ended < Len(p.clips)
        /\ p.res = "completed" =>
               /\ p.ended = Len(p.clips)
               /\ \A k \in ClipsOf(p) :
                      p.clips[k].st = "ended" /\ p.clips[k].n = 1
        /\ Len(p.clips) = 0 => p.res = "completed"

\* a call with the most clips has completed
C2_Witness ==
    /\ lastPlay.res = "completed"
    /\ Len(lastPlay.clips) = MaxClips

\* C3: a call one of whose clips failed has ended with a failure; no clip
\* after the failed one was started, and the clips before it were started
\* once each and have ended.
C3_FailureAborts ==
    \A p \in Plays :
        /\ (\E k \in ClipsOf(p) : p.clips[k].st = "error") => p.res = "failed"
        /\ p.res = "failed" =>
               \A k \in ClipsOf(p) :
                   /\ k = p.cur => p.clips[k].st = "error"
                   /\ k > p.cur => p.clips[k] = IdleClip
                   /\ k < p.cur => p.clips[k].st = "ended" /\ p.clips[k].n = 1

\* a call failed at a clip that has clips after it
C3_Witness ==
    /\ lastPlay.res = "failed"
    /\ lastPlay.cur < Len(lastPlay.clips)

\* the startSession and sendAudio calls suspended in playAudioSequentially
Playing ==
    {<<"start", i>> : i \in {i \in 1..Len(starts) : starts[i].pc = "playing"}}
        \cup
    {<<"turn", j>> : j \in {j \in 1..Len(turns) : turns[j].pc = "playing"}}

\* C4: while the playback of a /chat reply is under way no other playback is:
\* a reply's playback never overlaps the greeting's or another reply's.
C4_OnePlaybackAtATime ==
    (\E j \in 1..Len(turns) : turns[j].pc = "playing") =>
        Cardinality(Playing) <= 1

Recording == {r \in 1..Len(recorders) : recorders[r].state = "recording"}

\* C5: at most one MediaRecorder is recording in every reachable state.  The
\* claim is stated for the runs in which every physical press delivered a
\* single press event.
C5_OneRecorderRecording == (presses = gest) => Cardinality(Recording) <= 1

\* C6: when the startRecording call of a press made during Processing runs
\* on (the microphone is granted), the recorder, the status text, the
\* recording indicator and the buffered chunks are what they were, and so are
\* the blob and the request of every upload in flight.
C6_PressWhileProcessingIsNoOp ==
    [][\A k \in 1..MaxCalls :
          (MicGranted(k) /\ gums[k].proc) =>
              UNCHANGED <<mediaRecorder, statusText, recordingClass,
                          audioChunks, turns>>]_vars

C8_ChatSendsSessionParameters ==
    \A j \in 1..Len(turns) :
        (turns[j].pc = "fetch" /\ turns[j].sent # NoRequest) =>
            turns[j].req = turns[j].sent

ControlsDisabled == langDisabled /\ levelDisabled /\ startBtnDisabled

\* C9: once a startSession has succeeded (it stored the session id, which
\* nothing ever clears), the language controls, the level control and the
\* start button are disabled, in every later state.
C9_ControlsLatched == currentSessionId # 0 => ControlsDisabled

\* a turn has failed after the session was started
C9_Witness ==
    /\ currentSessionId # 0
    /\ statusText = "Erreur"
    /\ \E k \in 1..Len(chatHistory) : chatHistory[k].kind = "system"

\* the i-th startSession call fails in this step
StartFailed(i) ==
    /\ i \in 1..Len(starts)
    /\ starts[i].pc = "fetch"
    /\ starts'[i].pc = "returned"
    /\ statusText' = "Error starting."

\* C10: the step in which a /start request fails leaves the session id, the
\* controls, the start button and the history as they were, and issues no
\* /start request.
C10_FailedStartChangesNothing ==
    [][\A i \in 1..MaxCalls :
          StartFailed(i) =>
              /\ UNCHANGED <<currentSessionId, controls, chatHistory>>
              /\ Len(starts') = Len(starts)
              /\ \A m \in 1..Len(starts) :
                     starts'[m].pc = "fetch" => starts[m].pc = "fetch"]_vars

\* after a failed /start the session is unstarted and a second click has
\* issued a new request
C10_Witness ==
    /\ Len(starts) = 2
    /\ starts[1].pc = "returned"
    /\ starts[2].pc = "fetch"
    /\ currentSessionId = 0
    /\ ~startBtnDisabled /\ ~langDisabled /\ ~levelDisabled
    /\ chatHistory = <<>>

\* C11: no /chat request is ever issued before a startSession has
\* succeeded: every /chat request in flight was sent when a session had
\* already been started (sent holds what that session's /start had sent)
C11_NoChatBeforeSession ==
    \A j \in 1..Len(turns) :
        turns[j].pc = "fetch" => turns[j].sent # NoRequest

\* the step in which the /chat request of turn j fails: sendAudio's catch
\* block runs from the fetch
ChatFailed(j) ==
    /\ j \in 1..Len(turns)
    /\ turns[j].pc = "fetch"
    /\ turns'[j].pc = "returned"
    /\ statusText' = "Erreur"

\* the number of entries of a kind in a conversation
Count(h, kind) == Cardinality({k \in 1..Len(h) : h[k].kind = kind})

\* what a failed /chat request leaves alone and what it reports: the
\* session and its parameters, one more error marker, no new request
ChatFailureReported(j) ==
    /\ UNCHANGED <<session, selection, controls, starts>>
    /\ Count(chatHistory', "system") = Count(chatHistory, "system") + 1
    /\ Len(chatHistory') <= Len(chatHistory) + 1
    /\ Len(turns') = Len(turns)
    /\ \A m \in 1..Len(turns) : turns'[m].pc = "fetch" => turns[m].pc = "fetch"

\* C12: when a /chat upload fails, the session identifier and the session
\* parameters are unchanged, exactly one error marker is appended to the
\* conversation, the placeholder of the failed turn is removed, and no
\* further /chat request is issued by that step
C12_ChatFailureHandled ==
    [][\A j \in 1..MaxCalls : ChatFailed(j) =>
          /\ ChatFailureReported(j)
          /\ \A k \in 1..Len(chatHistory') :
                chatHistory'[k] # Entry("placeholder", j)]_vars

\* the rest of C12 without the placeholder
C12_Rest ==
    [][\A j \in 1..MaxCalls : ChatFailed(j) => ChatFailureReported(j)]_vars

\* the step appends an error marker to the conversation
ErrorMarkerAppended ==
    Count(chatHistory', "system") = Count(chatHistory, "system") + 1

\* C13: a transport error on /start, as well as one on /chat, appends a
\* visible error marker to the conversation history
C13_TransportErrorMarked ==
    [][/\ \A i \in 1..MaxCalls : StartFailed(i) => ErrorMarkerAppended
       /\ \A j \in 1..MaxCalls : ChatFailed(j) => ErrorMarkerAppended]_vars

\* C14: every recording that is stopped leads back to Idle: once the
\* recorder's stop event has fired and sendAudio runs, the turn eventually
\* returns, and the step in which it returns sets the status to ready
\* ('Prêt') or to error ('Erreur'), whatever the outcome of the upload,
\* provided the /chat request and every started clip complete or fail
Settled == {"Prêt", "Erreur"}
C14_StoppedRecordingSettles ==
    /\ \A j \in 1..MaxCalls :
          (j <= Len(turns) /\ InFlight(turns[j]))
              ~> (/\ j <= Len(turns)
                  /\ turns[j].pc = "returned"
                  /\ statusText \in Settled)
    /\ [][\A j \in 1..Len(turns) :
             (InFlight(turns[j]) /\ turns'[j].pc = "returned")
                 => statusText' \in Settled]_vars
C14_Witness ==
    /\ \E k \in 1..Len(chatHistory) : chatHistory[k].kind = "system"
    /\ statusText = "Prêt"
    /\ Len(turns) = 2 /\ turns[1].pc = "returned" /\ turns[2].pc = "returned"
    /\ lastPlay.res = "completed" /\ Len(lastPlay.clips) > 0

\* C15: after any error the system still accepts a new recording attempt:
\* in every reachable state, whatever was reported before, a press on the
\* released button is accepted; a press whose microphone request is granted
\* starts a new recording, held by the global recorder; and once the button
\* is released while that recorder records, a new /chat upload follows
GlobalRecording ==
    mediaRecorder # 0 /\ recorders[mediaRecorder].state = "recording"
C15_NewRecordingAfterError ==
    /\ []((~held /\ Len(starts) + presses < MaxCalls) => ENABLED Press)
    /\ [][\A k \in 1..MaxCalls : MicGranted(k) =>
             /\ Len(recorders') = Len(recorders) + 1
             /\ mediaRecorder' = Len(recorders')
             /\ recorders'[mediaRecorder'].state = "recording"]_vars
    /\ \A n \in 0..MaxCalls :
          (held /\ GlobalRecording /\ Len(turns) = n)
              ~> (Len(turns) > n)
C15_Witness ==
    \E k, m \in 1..Len(chatHistory) :
        /\ k < m
        /\ chatHistory[k].kind = "system"
        /\ chatHistory[m].kind = "placeholder"
        /\ turns[chatHistory[m].of].pc = "fetch"

\* what a press that gets no microphone must leave alone, and what it
\* reports
PressRefused ==
    /\ UNCHANGED <<recorders, mediaRecorder, audioChunks, recordingClass,
                   statusText, turns, chatHistory>>
    /\ alerts' = alerts + 1

\* every press event of the current gesture has ended without a recorder
PressFailed ==
    /\ gest > 0
    /\ \A r \in 1..Len(recorders) : recorders[r].gest # gest
    /\ \A k \in 1..Len(gums) : gums[k].gest # gest

\* a release event of the current gesture is delivered
ReleaseStep == (held /\ ~held') \/ (~releaseDup /\ releaseDup')

\* C16: when the browser has no audio capture capability or microphone
\* access is denied, the press leaves the controller in Idle: it creates and
\* starts no recorder, leaves the recording indicator and the status text
\* unchanged, reports the error once, and neither the press nor its release
\* results in a /chat request
C16_RefusedPressIsIdle ==
    [][/\ (presses' = presses + 1 /\ ~hasMedia) => (PressRefused /\ UNCHANGED gums)
       /\ \A k \in 1..MaxCalls : MicDenied(k) => PressRefused
       /\ (ReleaseStep /\ PressFailed) =>
              UNCHANGED <<recorders, turns, recordingClass, statusText>>]_vars

\* the part of C16 about the press itself
C16_Press ==
    [][/\ (presses' = presses + 1 /\ ~hasMedia) => (PressRefused /\ UNCHANGED gums)
       /\ \A k \in 1..MaxCalls : MicDenied(k) => PressRefused]_vars

\* C17: the microphone stream acquired for a recording is released no later
\* than when that recording stops: whenever no recorder is recording, no
\* stream that startRecording acquired is still live
C17_StreamReleased ==
    Recording = {} => \A r \in 1..Len(recorders) : recorders[r].stream # "live"

\* the blocks and the segments they were made from
Blocks == (1..Len(responseContainer)) \cap (1..Len(data.segments))

\* C18: for every segment of a reply, and for either supported language as
\* the native one, the segment is rendered hidden behind a toggle (not
\* visible when rendered) if and only if its language is the native
\* (source) language; every other segment is plainly visible text
C18_NativeSegmentsHidden ==
    /\ [](rendered => \A k \in Blocks :
            LET b == responseContainer[k]
            IN  /\ b.toggle <=> data.segments[k].lang = data.sourceLang
                /\ ~b.toggle => (b.visible /\ b.class = "target-lang-text")
                /\ b.toggle => b.class = "hidden-content")
    /\ [][(~rendered /\ rendered') =>
             \A k \in 1..Len(responseContainer') :
                responseContainer'[k].toggle
                    => ~responseContainer'[k].visible]_vars
C18_Witness ==
    /\ rendered
    /\ data.sourceLang = "ru"
    /\ Len(data.segments) = 2
    /\ data.segments[1].lang = "ru" /\ data.segments[2].lang = "fr"
    /\ responseContainer[1].toggle /\ ~responseContainer[1].visible
    /\ ~responseContainer[2].toggle /\ responseContainer[2].visible

\* C19: rendering a reply preserves the segments as received: one block per
\* segment, in the order of the response, none reordered, merged or dropped
C19_SegmentsPreserved ==
    rendered =>
        /\ Len(responseContainer) = Len(data.segments)
        /\ \A k \in Blocks :
              /\ responseContainer[k].text = data.segments[k].text
              /\ responseContainer[k].flag = LangFlag(data.segments[k].lang)
C19_Witness ==
    /\ rendered
    /\ Len(responseContainer) = MaxSegments
    /\ data.segments[1].text # data.segments[2].text
    /\ data.segments[1].lang # data.segments[2].lang

\* C20: a corrected text that equals the sentinel "aucune correction
\* nécessaire" in any letter case never appears in the rendered output, and
\* any other non-empty corrected text of the response does appear in it
C20_SentinelNeverRendered ==
    (rendered /\ data.user_analysis.present) =>
        LET t == data.user_analysis.corrected_text
        IN  /\ toLowerCase(t) = Sentinel => correctionPanel.text # t
            /\ (t # <<>> /\ toLowerCase(t) # Sentinel)
                   => correctionPanel.text = t

\* h is an initial part of g
IsPrefix(h, g) == Len(h) <= Len(g) /\ \A k \in 1..Len(h) : g[k] = h[k]

\* C22: the conversation history is append-only and is mutated only after a
\* turn's response has fully arrived: no step removes or replaces an entry
\* of the history, and no step that leaves a request awaiting its response
\* which it did not answer adds an entry for that request
C22_HistoryAppendOnly ==
    [][/\ IsPrefix(chatHistory, chatHistory')
       /\ \A j \in 1..Len(turns') :
             (turns'[j].pc = "fetch" /\ (j > Len(turns) \/ turns[j].pc = "fetch"))
                 => \A k \in 1..Len(chatHistory') :
                       chatHistory'[k].of # j]_vars

\* the first half of C22 alone
C22_NothingRemoved == [][IsPrefix(chatHistory, chatHistory')]_vars

\* the recordings that were stopped and whose stop event has fired
Stopped ==
    {r \in 1..Len(recorders) :
        recorders[r].state = "inactive" /\ ~recorders[r].stopTask}

\* a blob without audio data
EmptyBlob(b) == \A k \in 1..Len(b) : b[k].size = 0

\* C23: a release that occurs while the recorder records and nothing is
\* buffered still produces a blob, empty when nothing was captured, and
\* issues exactly one /chat request with it: every stop event has issued
\* one /chat request, whose blob ends with the chunk of that recording,
\* whatever its size
C23_EmptyRecordingUploaded ==
    /\ Len(turns) = Cardinality(Stopped)
    /\ \A j \in 1..Len(turns) :
          turns[j].pc = "fetch" =>
              /\ turns[j].blob # <<>>
              /\ turns[j].blob[Len(turns[j].blob)].rec = turns[j].rec
C23_Witness ==
    \E j \in 1..Len(turns) :
        /\ turns[j].pc = "fetch"
        /\ EmptyBlob(turns[j].blob)
        /\ Len(turns[j].blob) = 1

\* the step in which the /start request of call i, the /chat request of
\* turn j, is answered with a response body
StartAnswered(i) ==
    /\ i \in 1..Len(starts)
    /\ starts[i].pc = "fetch"
    /\ \/ starts'[i].pc = "playing"
       \/ starts'[i].pc = "returned" /\ statusText' = "Your turn (Press Mic)"
ChatAnswered(j) ==
    /\ j \in 1..Len(turns)
    /\ turns[j].pc = "fetch"
    /\ \/ turns'[j].pc = "playing"
       \/ turns'[j].pc = "returned" /\ statusText' = "Prêt"

\* the step appends an entry for the system's reply: the rendered segments
\* or the acknowledgment
ReplyShown ==
    Count(chatHistory', "ai") + Count(chatHistory', "welcome")
        = Count(chatHistory, "ai") + Count(chatHistory, "welcome") + 1

\* C24: a response with no segments at all falls back to a minimal
\* acknowledgment entry rather than rendering nothing for the system's
\* reply, for the /start response and for the /chat response: every
\* answered request appends an entry for the reply
C24_ReplyAlwaysShown ==
    [][/\ \A i \in 1..MaxCalls : StartAnswered(i) => ReplyShown
       /\ \A j \in 1..MaxCalls : ChatAnswered(j) => ReplyShown]_vars

\* the controller is Idle: nothing records, no stop event is due, and no
\* turn is being uploaded or played
Idle ==
    /\ Recording = {}
    /\ \A r \in 1..Len(recorders) : ~recorders[r].stopTask
    /\ \A j \in 1..Len(turns) : ~InFlight(turns[j])

\* C25: raw audio is never retained past upload: once the /chat request of
\* a turn has settled and the controller is back in Idle, the controller
\* holds no buffered chunk with audio data in it
C25_NoAudioRetained == Idle => EmptyBlob(audioChunks)

\* the requests that are awaiting their response
PendingRequests ==
    {starts[i].req : i \in {m \in 1..Len(starts) : starts[m].pc = "fetch"}}
        \cup {turns[j].req : j \in {m \in 1..Len(turns) : turns[m].pc = "fetch"}}

\* C28: in every /start and /chat request the native (source_lang) and the
\* target (target_lang) language are distinct and both belong to the
\* supported set {fr, ru}
C28_LanguagesDistinctSupported ==
    \A q \in PendingRequests :
        q.src # q.tgt /\ q.src \in Langs /\ q.tgt \in Langs
C28_Witness ==
    /\ \E i \in 1..Len(starts) :
          starts[i].pc = "fetch" /\ starts[i].req.src = "fr"
    /\ \E j \in 1..Len(turns) :
          turns[j].pc = "fetch" /\ turns[j].req.src = "ru"

\* C30: every press is matched by its release, also when the release
\* arrives before the microphone request of the press is granted: no
\* recorder is left recording while the button is not held
C30_NoRecordingUnheld == ~held => Recording = {}

\* C29: the score thresholds partition the scale 0..100 into three bands:
\* 80 and above is the high band, 60 up to but not including 80 the medium
\* band, below 60 and a missing score (taken as 0) the low band; the band of
\* the score bar and the band of the emoji always agree
C29_ScoreBands ==
    (rendered /\ data.pronunciation.present) =>
        LET score == IF data.pronunciation.hasScore
                     THEN data.pronunciation.score ELSE 0
            panel == pronunciationPanel
            band == IF score >= 800 THEN "high"
                    ELSE IF score >= 600 THEN "medium" ELSE "low"
        IN  /\ panel.shown
            /\ band = "high"
                  <=> panel.scoreClass = "excellent"
            /\ band = "medium" <=> panel.scoreClass = "good"
            /\ band = "low" <=> panel.scoreClass = "needs-work"
            /\ band = "high" <=> panel.scoreEmoji = "target"
            /\ band = "medium" <=> panel.scoreEmoji = "thumbs-up"
            /\ band = "low" <=> panel.scoreEmoji = "repeat"
C29_Witness ==
    /\ rendered
    /\ data.pronunciation.hasScore
    /\ data.pronunciation.score = 599
    /\ pronunciationPanel.scoreClass = "needs-work"
    /\ pronunciationPanel.scoreEmoji = "repeat"

\* the clips of the response have all been played to their end
AllClipsEnded ==
    /\ Len(replyPlay.clips) = data.audio
    /\ \A k \in 1..Len(replyPlay.clips) : replyPlay.clips[k].st = "ended"

\* C21: each optional part of a /chat response (pronunciation, correction,
\* segments, audio) is rendered or skipped on its own presence only; a
\* response without pronunciation and user_analysis still has every segment
\* rendered and, once the turn is ready, every audio segment played
C21_OptionalPartsIndependent ==
    (rendered /\ data.kind = "chat") =>
        /\ pronunciationPanel.shown <=> data.pronunciation.present
        /\ correctionPanel.shown <=>
              /\ data.user_analysis.present
              /\ \/ data.user_analysis.corrected_text # <<>>
                 \/ data.user_analysis.explanation # ""
        /\ Len(responseContainer) = Len(data.segments)
        /\ \A k \in 1..Len(data.segments) :
              responseContainer[k].text = data.segments[k].text
        /\ replyPlay.called <=> data.audio > 0
        /\ replyPlay.called => Len(replyPlay.clips) = data.audio
        /\ (statusText = "Prêt" /\ data.audio > 0) => AllClipsEnded
C21_Witness ==
    /\ rendered
    /\ data.kind = "chat"
    /\ ~data.pronunciation.present
    /\ ~data.user_analysis.present
    /\ Len(data.segments) = MaxSegments
    /\ Len(responseContainer) = MaxSegments
    /\ data.audio = MaxClips
    /\ statusText = "Prêt"
    /\ AllClipsEnded

\* the entries one response adds to the history
TurnEntries ==
    IF data.kind = "chat"
    THEN ReplyEntries
    ELSE <<Entry(IF data.hasSegments THEN "ai" ELSE "welcome", 0)>>

\* C27: the transcript, the panels and the text segments of a response are
\* all in the history before its first clip starts, and the status is
\* ready ('Prêt', 'Your turn (Press Mic)' after /start) only after every
\* clip of the response has ended
C27_TextBeforeAudioBeforeReady ==
    /\ replyPlay.called =>
          /\ rendered
          /\ IsPrefix(TurnEntries, chatHistory)
          /\ data.hasSegments => responseContainer = ReplyContainer
    /\ statusText \in {"Prêt", "Your turn (Press Mic)"} =>
          /\ rendered
          /\ statusText = ReadyStatus
          /\ replyPlay.res # "running"
          /\ replyPlay.called => AllClipsEnded
          /\ ~replyPlay.called => data.audio <= 0
C27_Witness ==
    /\ data.kind = "start"
    /\ data.audio = MaxClips
    /\ Len(data.segments) = MaxSegments
    /\ statusText = "Your turn (Press Mic)"
    /\ AllClipsEnded
    /\ chatHistory = <<Entry("ai", 0)>>

\* the indicator a tag stands for
IndicatorOf(tag) ==
    IF tag = "fr" THEN "flag-fr" ELSE IF tag = "ru" THEN "flag-ru" ELSE ""

\* C26: the language indicator of every rendered segment is derived from
\* its tag only: 'fr' gives the French indicator, 'ru' the Russian one, any
\* other tag none, and every segment is rendered whatever the tags are
C26_IndicatorFromTag ==
    rendered =>
        /\ Len(responseContainer) = Len(data.segments)
        /\ \A k \in 1..Len(data.segments) :
              /\ responseContainer[k].flag = IndicatorOf(data.segments[k].lang)
              /\ responseContainer[k].text = data.segments[k].text

\* the /start requests that await their response
StartsInFlight == {i \in 1..Len(starts) : starts[i].pc = "fetch"}

\* C31: the stored session identifier is assigned at most once (no step
\* changes it after a successful /start has set it) and at most one /start
\* request is in flight at any time, also when the start button is clicked
\* again before the first response
C31_SessionAssignedOnce ==
    [][/\ currentSessionId # 0 => currentSessionId' = currentSessionId
       /\ Cardinality(StartsInFlight') <= 1]_vars

\* the sendAudio calls whose /chat request awaits its response
ChatsAwaiting == {j \in 1..Len(turns) : turns[j].pc = "fetch"}

\* C32: the history holds as many placeholders as /chat requests await
\* their response, one of each awaiting turn and none of another: a turn
\* removes its own placeholder when its response or error arrives, and no
\* placeholder remains when no request is pending
C32_PlaceholderPerPendingChat ==
    /\ Count(chatHistory, "placeholder") = Cardinality(ChatsAwaiting)
    /\ \A j \in ChatsAwaiting :
          \E k \in 1..Len(chatHistory) :
              chatHistory[k] = Entry("placeholder", j)

\* the chunks of b that recorder r produced, in their order in b
RECURSIVE ChunksOf(_, _)
ChunksOf(b, r) ==
    IF b = <<>> THEN <<>>
    ELSE (IF Head(b).rec = r THEN <<Head(b)>> ELSE <<>>) \o ChunksOf(Tail(b), r)

\* C33: the blob uploaded for a recording consists of exactly the chunks of
\* that recording's own recorder, in the order they were produced: it holds
\* the one chunk its recorder delivered at the stop and no chunk of another
\* recorder
C33_BlobIsOwnRecording ==
    \A j \in ChatsAwaiting :
        /\ Len(ChunksOf(turns[j].blob, turns[j].rec)) = 1
        /\ turns[j].blob = ChunksOf(turns[j].blob, turns[j].rec)

\* C34: the user-visible recording state matches the real one: the record
\* button carries the 'recording' indicator exactly when some recorder is
\* recording, and the status never reads 'Prêt' while a recorder is
\* recording or a /chat request is pending
C34_IndicatorMatchesRecording ==
    /\ recordingClass <=> Recording # {}
    /\ statusText = "Prêt" => (Recording = {} /\ ChatsAwaiting = {})

\* a startSession call ends in its catch block in this step
StartErrorReported ==
    /\ statusText' = "Error starting."
    /\ \E i \in 1..Len(starts) :
          starts[i].pc \in {"fetch", "playing"} /\ starts'[i].pc = "returned"

\* C35: startSession reports a start error only when the session is left
\* unstarted: whenever the status 'Error starting.' is set, no session
\* identifier is stored and the parameter controls and the start button are
\* enabled, also when the failure is one of the greeting's playback
C35_StartErrorMeansUnstarted ==
    [][StartErrorReported =>
          /\ currentSessionId' = 0
          /\ ~langDisabled' /\ ~levelDisabled' /\ ~startBtnDisabled']_vars

============================================================================
